---- MODULE Spec2Model ----
(***************************************************************************)
(* Brand-matching engine of guber-demo: the optimized assignBrandIfKnown   *)
(* of src/src/common/brands.ts (lines 1-304), the unoptimized variant kept *)
(* in the same file (lines 455-684) and the earlier variant kept in        *)
(* src/unnamed/part_000.                                                   *)
(*                                                                         *)
(* A JavaScript string is a sequence of characters; a character is a       *)
(* one-element name ("a", "A", " ", ";", ...).  The characters outside     *)
(* ASCII are named: "e_acute" (U+00E9), "E_acute" (U+00C9), "o_slash"      *)
(* (U+00F8), "O_slash" (U+00D8), "acute" (the combining mark U+0301),      *)
(* "cgj" (the combining grapheme joiner U+034F), "etnahta" and "segol"     *)
(* (the Hebrew accents U+0591 and U+0592).                                 *)
(* A Map or Set is a sequence in insertion order, which is the order       *)
(* JavaScript iterates it in.                                              *)
(***************************************************************************)
EXTENDS Integers, Sequences, FiniteSets, TLC

VARIABLES impl, connections, products, pc, ci, brandMap, brandsMapping,
          canonicalLookup, brandMatchCache, brandNetworkCache,
          normalizationCache, i, results

vars == <<impl, connections, products, pc, ci, brandMap, brandsMapping,
          canonicalLookup, brandMatchCache, brandNetworkCache,
          normalizationCache, i, results>>

(***************************************************************************)
(* Bounds of the model.                                                    *)
(***************************************************************************)
MaxRows == 2
MaxProducts == 2
\* the calls of the normalizer on its own: the length of the input and the
\* number of calls
MaxTitleLen == 4
MaxCalls == 3
\* buildCanonicalLookup on its own: the number of keys of the graph
MaxKeys == 2

(***************************************************************************)
(* Characters.                                                             *)
(***************************************************************************)
LowerOf ==
    [A |-> "a", B |-> "b", C |-> "c", D |-> "d", E |-> "e", F |-> "f",
     G |-> "g", H |-> "h", I |-> "i", J |-> "j", K |-> "k", L |-> "l",
     M |-> "m", N |-> "n", O |-> "o", P |-> "p", Q |-> "q", R |-> "r",
     S |-> "s", T |-> "t", U |-> "u", V |-> "v", W |-> "w", X |-> "x",
     Y |-> "y", Z |-> "z", E_acute |-> "e_acute", O_slash |-> "o_slash"]

UpperOf ==
    [a |-> "A", b |-> "B", c |-> "C", d |-> "D", e |-> "E", f |-> "F",
     g |-> "G", h |-> "H", i |-> "I", j |-> "J", k |-> "K", l |-> "L",
     m |-> "M", n |-> "N", o |-> "O", p |-> "P", q |-> "Q", r |-> "R",
     s |-> "S", t |-> "T", u |-> "U", v |-> "V", w |-> "W", x |-> "X",
     y |-> "Y", z |-> "Z", e_acute |-> "E_acute", o_slash |-> "O_slash"]

DigitValue ==
    [c \in {"0", "1", "2", "3", "4", "5", "6", "7", "8", "9"} |->
        CASE c = "0" -> 0 [] c = "1" -> 1 [] c = "2" -> 2 [] c = "3" -> 3
          [] c = "4" -> 4 [] c = "5" -> 5 [] c = "6" -> 6 [] c = "7" -> 7
          [] c = "8" -> 8 [] c = "9" -> 9]

Digits == DOMAIN DigitValue

\* the named characters of U+00C0..U+017F, and those of U+0300..U+036F
Latin1Letters == {"e_acute", "E_acute", "o_slash", "O_slash"}

CombiningMarks == {"acute", "cgj"}

\* the canonical combining class of a character (0: a starter)
CombiningClass(c) ==
    CASE c \in {"acute", "segol"} -> 230
      [] c = "etnahta" -> 220
      [] OTHER -> 0

AsciiLetters == (DOMAIN LowerOf \cup DOMAIN UpperOf) \ Latin1Letters

\* \w of a RegExp without the u flag: [A-Za-z0-9_]
IsWordChar(c) == c \in AsciiLetters \cup Digits \cup {"_"}

\* \s of a RegExp, and the characters String.prototype.trim removes
WhiteSpace == {" ", "\t", "\n"}

IsSpace(c) == c \in WhiteSpace

\* the characters /[.*+?^${}()|[\]\\]/ escapes
RegExpMeta == {".", "*", "+", "?", "^", "$", "{", "}", "(", ")", "|", "[", "]", "\\"}

CharToLower(c) == IF c \in DOMAIN LowerOf THEN LowerOf[c] ELSE c

CharToUpper(c) == IF c \in DOMAIN UpperOf THEN UpperOf[c] ELSE c

(***************************************************************************)
(* Strings.                                                                *)
(***************************************************************************)
toLowerCase(s) == [k \in 1..Len(s) |-> CharToLower(s[k])]

toUpperCase(s) == [k \in 1..Len(s) |-> CharToUpper(s[k])]

\* s.trim()
trim(s) ==
    LET keep == {k \in 1..Len(s) : ~IsSpace(s[k])}
    IN  IF keep = {} THEN <<>>
        ELSE LET lo == CHOOSE k \in keep : \A m \in keep : k <= m
                 hi == CHOOSE k \in keep : \A m \in keep : k >= m
             IN  SubSeq(s, lo, hi)

\* s.split(";"): the pieces between the separators, at least one piece
RECURSIVE split(_)
split(s) ==
    LET at == {k \in 1..Len(s) : s[k] = ";"}
    IN  IF at = {} THEN <<s>>
        ELSE LET k == CHOOSE m \in at : \A n \in at : m <= n
             IN  <<SubSeq(s, 1, k - 1)>> \o split(SubSeq(s, k + 1, Len(s)))

\* haystack.indexOf(needle), 0-based, -1 when absent
indexOf(haystack, needle) ==
    LET hits == {p \in 0..(Len(haystack) - Len(needle)) :
                    SubSeq(haystack, p + 1, p + Len(needle)) = needle}
    IN  IF hits = {} THEN -1
        ELSE CHOOSE p \in hits : \A q \in hits : p <= q

\* array.includes(x), set.has(x)
Includes(seq, x) == \E k \in 1..Len(seq) : seq[k] = x

\* set.add(x) on a Set kept in insertion order
SetAdd(seq, x) == IF Includes(seq, x) THEN seq ELSE Append(seq, x)

RECURSIVE SetAddAll(_, _)
SetAddAll(seq, xs) ==
    IF xs = <<>> THEN seq ELSE SetAddAll(SetAdd(seq, Head(xs)), Tail(xs))

Range(seq) == {seq[k] : k \in 1..Len(seq)}

(***************************************************************************)
(* Module-level configuration.                                             *)
(***************************************************************************)
firstWordBrandValidationList ==
    { <<"r", "i", "c", "h">>, <<"r", "f", "f">>, <<"f", "l", "e", "x">>,
      <<"u", "l", "t", "r", "a">>, <<"g", "u", "m">>,
      <<"b", "e", "a", "u", "t", "y">>, <<"o", "r", "t", "o">>,
      <<"f", "r", "e", "e">>, <<"1", "1", "2">>, <<"k", "i", "n">>,
      <<"h", "a", "p", "p", "y">>, <<"H", "A", "P", "P", "Y">> }

firstOrSecondWordBrandValidationList ==
    { <<"h", "e", "e", "l">>, <<"c", "o", "n", "t", "o", "u", "r">>,
      <<"n", "e", "r", "o">>, <<"r", "s", "v">> }

ignoreBrandsList == { <<"b", "i", "o">>, <<"n", "e", "b">> }

(***************************************************************************)
(* getBrandsMapping.  brandMap is a Map<string, Set<string>>: a sequence   *)
(* of [brand, related] in insertion order, related in insertion order.     *)
(***************************************************************************)
MapHas(map, key) == \E k \in 1..Len(map) : map[k].brand = key

MapIndex(map, key) == CHOOSE k \in 1..Len(map) : map[k].brand = key

MapGet(map, key) == map[MapIndex(map, key)].related

\* if (!brandMap.has(b)) brandMap.set(b, new Set())
MapInit(map, key) ==
    IF MapHas(map, key) THEN map
    ELSE Append(map, [brand |-> key, related |-> <<>>])

\* brandMap.get(key)!.add(x)
MapAddTo(map, key, x) ==
    [map EXCEPT ![MapIndex(map, key)].related = SetAdd(@, x)]

\* AddPair with the reverse edge forgotten
AddPairOneWay(map, brand1, brand2) ==
    MapAddTo(MapInit(map, brand2), brand1, brand2)

\* the body of brand2Array.forEach
AddPair(map, brand1, brand2) ==
    MapAddTo(MapAddTo(MapInit(map, brand2), brand1, brand2), brand2, brand1)

RECURSIVE AddPairs(_, _, _)
AddPairs(map, brand1, brand2Array) ==
    IF brand2Array = <<>> THEN map
    ELSE AddPairs(AddPair(map, brand1, Head(brand2Array)), brand1,
                  Tail(brand2Array))

\* the body of brandConnections.forEach
AddConnection(map, row) ==
    LET brand1 == toLowerCase(row.manufacturer_p1)
        brands2 == toLowerCase(row.manufacturers_p2)
        parts == split(brands2)
        brand2Array == [k \in 1..Len(parts) |-> trim(parts[k])]
    IN  AddPairs(MapInit(map, brand1), brand1, brand2Array)

\* a canonical array index ("0", "112"; up to nine digits here): such a
\* property key of an object is enumerated before the string keys, in
\* ascending numeric order
IsArrayIndex(key) ==
    /\ Len(key) >= 1
    /\ Len(key) <= 9
    /\ \A k \in 1..Len(key) : key[k] \in Digits
    /\ (Len(key) > 1 => key[1] # "0")

RECURSIVE NumericValue(_)
NumericValue(key) ==
    IF key = <<>> THEN 0
    ELSE 10 * NumericValue(SubSeq(key, 1, Len(key) - 1))
         + DigitValue[key[Len(key)]]

\* the position of entry k of an insertion-ordered map among the properties
\* of the object it is copied into
PropertyRank(map, k) ==
    IF IsArrayIndex(map[k].brand)
    THEN Cardinality({m \in 1..Len(map) :
            /\ IsArrayIndex(map[m].brand)
            /\ NumericValue(map[m].brand) <= NumericValue(map[k].brand)})
    ELSE Cardinality({m \in 1..Len(map) : IsArrayIndex(map[m].brand)})
         + Cardinality({m \in 1..k : ~IsArrayIndex(map[m].brand)})

\* brandMap.forEach((relatedBrands, brand) => brandsMapping[brand] = ...),
\* read back in the order Object.entries / Object.values / for-in give
ToObject(map) ==
    [r \in 1..Len(map) |->
        map[CHOOSE k \in 1..Len(map) : PropertyRank(map, k) = r]]

\* brandsMapping[key] || []
ObjectGet(obj, key) == IF MapHas(obj, key) THEN MapGet(obj, key) ELSE <<>>

(***************************************************************************)
(* buildCanonicalLookup.  The lookup is an object used only by key: a      *)
(* function from its keys to their values.                                 *)
(***************************************************************************)
\* array.reduce((shortest, current) =>
\*     current.length < shortest.length ? current : shortest)
RECURSIVE ReduceShortest(_, _)
ReduceShortest(shortest, rest) ==
    IF rest = <<>> THEN shortest
    ELSE ReduceShortest(IF Len(Head(rest)) < Len(shortest)
                        THEN Head(rest) ELSE shortest, Tail(rest))

Shortest(brands) == ReduceShortest(Head(brands), Tail(brands))

\* relatedBrands.filter((b) => !ignoreBrandsList.has(b.toLowerCase()))
FilterIgnored(relatedBrands) ==
    SelectSeq(relatedBrands, LAMBDA b : toLowerCase(b) \notin ignoreBrandsList)

CanonicalBrand(relatedBrands) ==
    LET filteredBrands == FilterIgnored(relatedBrands)
    IN  IF Len(filteredBrands) > 0 THEN Shortest(filteredBrands)
        ELSE Shortest(relatedBrands)

\* for (const brand of relatedBrands) canonicalLookup[brand] = canonicalBrand
AssignAll(lookup, relatedBrands, canonicalBrand) ==
    [key \in DOMAIN lookup \cup {toLowerCase(b) : b \in Range(relatedBrands)} |->
        IF \E b \in Range(relatedBrands) : toLowerCase(b) = key
        THEN toLowerCase(canonicalBrand)
        ELSE lookup[key]]

RECURSIVE CanonicalLoop(_, _)
CanonicalLoop(lookup, entries) ==
    IF entries = <<>> THEN lookup
    ELSE CanonicalLoop(
            AssignAll(lookup, Head(entries).related,
                      CanonicalBrand(Head(entries).related)),
            Tail(entries))

EmptyObject == [key \in {} |-> <<>>]

\* the value buildCanonicalLookup returns when it returns
buildCanonicalLookup(mapping) == CanonicalLoop(EmptyObject, mapping)

\* [].reduce(f), without an initial value, throws a TypeError: an empty
\* relatedBrands has an empty filteredBrands and takes the fallback reduce
buildCanonicalLookupThrows(mapping) ==
    \E k \in 1..Len(mapping) : mapping[k].related = <<>>

(***************************************************************************)
(* Regular expressions.  Every pattern of the program is built around the  *)
(* escaped brand and tested with the i flag.                               *)
(***************************************************************************)
\* brand.replace(/[.*+?^${}()|[\]\\]/g, "\\$&")
RECURSIVE escapeRegExp(_)
escapeRegExp(brand) ==
    IF brand = <<>> THEN <<>>
    ELSE (IF Head(brand) \in RegExpMeta THEN <<"\\", Head(brand)>>
          ELSE <<Head(brand)>>) \o escapeRegExp(Tail(brand))

\* the characters the pattern source matches: "\c" is the character c
RECURSIVE PatternLiteral(_)
PatternLiteral(source) ==
    IF source = <<>> THEN <<>>
    ELSE IF Head(source) = "\\" /\ Len(source) >= 2
         THEN <<source[2]>> \o PatternLiteral(SubSeq(source, 3, Len(source)))
         ELSE <<Head(source)>> \o PatternLiteral(Tail(source))

\* the escaped brand as the patterns embed it: "happy" is upper-cased
EscapedBrand(brand) ==
    LET escapedBrand == escapeRegExp(brand)
    IN  IF escapedBrand = <<"h", "a", "p", "p", "y">>
        THEN toUpperCase(escapedBrand) ELSE escapedBrand

\* the i flag compares characters by their upper-case form
Canonicalize(c) == CharToUpper(c)

\* the literal matches the input from 1-based position p on
LiteralAt(input, p, lit) ==
    /\ p >= 1
    /\ p + Len(lit) - 1 <= Len(input)
    /\ \A k \in 1..Len(lit) :
            Canonicalize(input[p + k - 1]) = Canonicalize(lit[k])

\* \b between character q and character q + 1 (q in 0..Len(input))
WordBoundary(input, q) ==
    (q >= 1 /\ IsWordChar(input[q])) # (q < Len(input) /\ IsWordChar(input[q + 1]))

\* (\b|\s|$) after character q
TermEnd(input, q) ==
    \/ WordBoundary(input, q)
    \/ q < Len(input) /\ IsSpace(input[q + 1])
    \/ q = Len(input)

\* ^brand(\b|\s|$)
AtBeginning(input, source) ==
    LET lit == PatternLiteral(source)
    IN  LiteralAt(input, 1, lit) /\ TermEnd(input, Len(lit))

\* ^\S+\s+brand(\b|\s|$)
AtSecondPosition(input, source) ==
    LET lit == PatternLiteral(source)
    IN  \E a \in 1..Len(input) : \E b \in (a + 1)..Len(input) :
            /\ \A k \in 1..a : ~IsSpace(input[k])
            /\ \A k \in (a + 1)..b : IsSpace(input[k])
            /\ LiteralAt(input, b + 1, lit)
            /\ TermEnd(input, b + Len(lit))

\* \bbrand\b
SeparateTerm(input, source) ==
    LET lit == PatternLiteral(source)
    IN  \E p \in 1..(Len(input) + 1) :
            /\ WordBoundary(input, p - 1)
            /\ LiteralAt(input, p, lit)
            /\ WordBoundary(input, p - 1 + Len(lit))

\* ^(?:brand\s|.*\sbrand\s.*|.*\sbrand)$
AtBeginningOrEndOrMiddle(input, source) ==
    LET lit == PatternLiteral(source)
        n == Len(input)
    IN  \/ /\ n = Len(lit) + 1
           /\ LiteralAt(input, 1, lit)
           /\ IsSpace(input[n])
        \/ \E p \in 2..n :
            /\ IsSpace(input[p - 1])
            /\ LiteralAt(input, p, lit)
            /\ p + Len(lit) <= n
            /\ IsSpace(input[p + Len(lit)])
        \/ \E p \in 2..(n + 1) :
            /\ IsSpace(input[p - 1])
            /\ LiteralAt(input, p, lit)
            /\ p + Len(lit) - 1 = n

(***************************************************************************)
(* buildBrandMatchCache and the sort of the cache.                         *)
(***************************************************************************)
\* CacheEntry with the position lists never consulted
CacheEntryAnywhere(brand) ==
    [brand |-> brand,
     pattern |-> [form |-> "anywhere", source |-> EscapedBrand(brand)],
     positionCheck |-> "undefined"]

\* one cache entry: the brand, its pattern (form and escaped brand) and tag
CacheEntry(brand) ==
    LET escapedBrand == EscapedBrand(brand)
    IN  IF brand \in firstWordBrandValidationList
        THEN [brand |-> brand,
              pattern |-> [form |-> "first", source |-> escapedBrand],
              positionCheck |-> "first"]
        ELSE IF brand \in firstOrSecondWordBrandValidationList
        THEN [brand |-> brand,
              pattern |-> [form |-> "first-or-second", source |-> escapedBrand],
              positionCheck |-> "first-or-second"]
        ELSE [brand |-> brand,
              pattern |-> [form |-> "anywhere", source |-> escapedBrand],
              positionCheck |-> "undefined"]

RECURSIVE buildBrandMatchCache(_)
buildBrandMatchCache(brands) ==
    IF brands = <<>> THEN <<>>
    ELSE IF Head(brands) \in ignoreBrandsList
         THEN buildBrandMatchCache(Tail(brands))
         ELSE <<CacheEntry(Head(brands))>> \o buildBrandMatchCache(Tail(brands))

\* cache.sort((a, b) => b.brand.length - a.brand.length): stable
RECURSIVE InsertByLength(_, _)
InsertByLength(sorted, entry) ==
    IF sorted = <<>> THEN <<entry>>
    ELSE IF Len(Head(sorted).brand) >= Len(entry.brand)
         THEN <<Head(sorted)>> \o InsertByLength(Tail(sorted), entry)
         ELSE <<entry>> \o sorted

RECURSIVE SortByLengthDesc(_)
SortByLengthDesc(cache) ==
    IF cache = <<>> THEN <<>>
    ELSE InsertByLength(SortByLengthDesc(SubSeq(cache, 1, Len(cache) - 1)),
                        cache[Len(cache)])

\* cacheEntry.pattern.test(normalizedInput)
checkBrandMatch(normalizedInput, cacheEntry) ==
    LET pattern == cacheEntry.pattern
    IN  CASE pattern.form = "first" ->
                AtBeginning(normalizedInput, pattern.source)
          [] pattern.form = "first-or-second" ->
                \/ AtBeginning(normalizedInput, pattern.source)
                \/ AtSecondPosition(normalizedInput, pattern.source)
          [] OTHER -> SeparateTerm(normalizedInput, pattern.source)

\* Object.values(brandsMapping).forEach(brands => brands.forEach(add))
RECURSIVE AllBrands(_, _)
AllBrands(acc, mapping) ==
    IF mapping = <<>> THEN acc
    ELSE AllBrands(SetAddAll(acc, Head(mapping).related), Tail(mapping))

\* the network of one brand: its neighbours, then the brand itself
Network(mapping, brand) ==
    LET related == ObjectGet(mapping, toLowerCase(brand))
    IN  SetAdd(SetAddAll(<<>>, [k \in 1..Len(related) |-> toLowerCase(related[k])]),
               toLowerCase(brand))

\* brandNetworkCache: one network per brand of allBrands
buildBrandNetworkCache(mapping, allBrands) ==
    [k \in 1..Len(allBrands) |->
        [brand |-> toLowerCase(allBrands[k]),
         related |-> Network(mapping, allBrands[k])]]

(***************************************************************************)
(* normalizeInputIfAccentInsensitive.                                      *)
(***************************************************************************)
\* canonical decomposition: a precomposed letter becomes letter + mark
RECURSIVE Decompose(_)
Decompose(input) ==
    IF input = <<>> THEN <<>>
    ELSE (CASE Head(input) = "e_acute" -> <<"e", "acute">>
            [] Head(input) = "E_acute" -> <<"E", "acute">>
            [] OTHER -> <<Head(input)>>) \o Decompose(Tail(input))

\* canonical ordering: adjacent marks are exchanged while the first has the
\* higher combining class; a starter (class 0) is never moved or passed
RECURSIVE CanonicalOrder(_)
CanonicalOrder(s) ==
    LET swaps == {k \in 1..(Len(s) - 1) :
                    /\ CombiningClass(s[k + 1]) > 0
                    /\ CombiningClass(s[k]) > CombiningClass(s[k + 1])}
    IN  IF swaps = {} THEN s
        ELSE LET k == CHOOSE m \in swaps : \A n \in swaps : m <= n
             IN  CanonicalOrder([s EXCEPT ![k] = s[k + 1], ![k + 1] = s[k]])

\* input.normalize("NFD")
NFD(input) == CanonicalOrder(Decompose(input))

\* /[\u0300-\u036f\u00C0-\u017F]/.test(normalized)
HasAccents(normalized) ==
    \E k \in 1..Len(normalized) :
        normalized[k] \in CombiningMarks \cup Latin1Letters

\* normalized.replace(/[\u0300-\u036f]/g, "")
StripMarks(normalized) == SelectSeq(normalized, LAMBDA c : c \notin CombiningMarks)

\* the function without its cache (the body after the cache lookup)
Normalize(input) ==
    LET normalized == NFD(input)
    IN  IF HasAccents(normalized) THEN StripMarks(normalized) ELSE input

\* the value returned under a given normalizationCache
normalizeInputIfAccentInsensitive(cache, input) ==
    IF input \in DOMAIN cache THEN cache[input] ELSE Normalize(input)

\* CacheAfter with the input stored in place of the result
CacheAfterStoresInput(cache, input) ==
    IF input \in DOMAIN cache THEN cache
    ELSE [key \in DOMAIN cache \cup {input} |->
            IF key = input THEN input ELSE cache[key]]

\* the normalizationCache after the call
CacheAfter(cache, input) ==
    IF input \in DOMAIN cache THEN cache
    ELSE [key \in DOMAIN cache \cup {input} |->
            IF key = input THEN Normalize(input) ELSE cache[key]]

(***************************************************************************)
(* The per-product body of assignBrandIfKnown (brands.ts, lines 216-290).  *)
(***************************************************************************)
\* null, distinct from every string
Null == <<"null">>

\* !x for a string or null: null and "" are falsy
Falsy(x) == x = Null \/ x = <<>>

\* MatchLoop with a break after the first match
RECURSIVE MatchLoopFirstOnly(_, _, _)
MatchLoopFirstOnly(matchedBrands, cache, normalizedTitle) ==
    IF cache = <<>> \/ matchedBrands # <<>> THEN matchedBrands
    ELSE MatchLoopFirstOnly(
            IF checkBrandMatch(normalizedTitle, Head(cache))
            THEN Append(matchedBrands, Head(cache).brand)
            ELSE matchedBrands,
            Tail(cache), normalizedTitle)

\* for (const cacheEntry of brandMatchCache): the matched brands, in order
RECURSIVE MatchLoop(_, _, _)
MatchLoop(matchedBrands, cache, normalizedTitle) ==
    IF cache = <<>> THEN matchedBrands
    ELSE MatchLoop(
            IF Includes(matchedBrands, Head(cache).brand) THEN matchedBrands
            ELSE IF checkBrandMatch(normalizedTitle, Head(cache))
                 THEN Append(matchedBrands, Head(cache).brand)
                 ELSE matchedBrands,
            Tail(cache), normalizedTitle)

\* matchedBrands.forEach: the union of the networks, in insertion order
RECURSIVE ConnectedBrands(_, _, _)
ConnectedBrands(acc, matchedBrands, networks) ==
    IF matchedBrands = <<>> THEN acc
    ELSE LET brand == toLowerCase(Head(matchedBrands))
         IN  ConnectedBrands(
                IF MapHas(networks, brand)
                THEN SetAddAll(acc, MapGet(networks, brand)) ELSE acc,
                Tail(matchedBrands), networks)

\* for (const brand of allConnectedBrands): keep the strictly earliest index
\* (earliestIndex -1 stands for the initial Infinity)
RECURSIVE EarliestLoop(_, _, _, _)
EarliestLoop(priorityBrand, earliestIndex, candidates, lowerTitle) ==
    IF candidates = <<>> THEN priorityBrand
    ELSE LET index == indexOf(lowerTitle, Head(candidates))
         IN  IF index # -1 /\ (earliestIndex = -1 \/ index < earliestIndex)
             THEN EarliestLoop(Head(candidates), index, Tail(candidates), lowerTitle)
             ELSE EarliestLoop(priorityBrand, earliestIndex, Tail(candidates),
                               lowerTitle)

\* canonicalLookup[priorityBrand] || priorityBrand
MainBrand(lookup, priorityBrand) ==
    IF priorityBrand \in DOMAIN lookup /\ ~Falsy(lookup[priorityBrand])
    THEN lookup[priorityBrand] ELSE priorityBrand

\* the candidate set of the optimized variant
AllConnectedBrands(matchedBrands, networks) ==
    ConnectedBrands(<<>>, matchedBrands, networks)

\* the priority brand of lines 253-267
PriorityBrand(matchedBrands, networks, lowerTitle) ==
    LET earliest == EarliestLoop(Null, -1,
                        AllConnectedBrands(matchedBrands, networks), lowerTitle)
    IN  IF Falsy(earliest) THEN toLowerCase(matchedBrands[1]) ELSE earliest

\* the record pushed for one product
ProductResult(title, cache, networks, lookup, normCache) ==
    LET normalizedTitle == normalizeInputIfAccentInsensitive(normCache, title)
        lowerTitle == toLowerCase(normalizedTitle)
        matchedBrands == MatchLoop(<<>>, cache, normalizedTitle)
        priorityBrand == IF Len(matchedBrands) > 0
                         THEN PriorityBrand(matchedBrands, networks, lowerTitle)
                         ELSE Null
        mainBrand == IF Len(matchedBrands) > 0
                     THEN MainBrand(lookup, priorityBrand) ELSE Null
    IN  [product |-> title, matchedBrands |-> matchedBrands,
         assignedBrand |-> mainBrand, priorityBrand |-> priorityBrand]

(***************************************************************************)
(* The earlier variant (part_000): checkBrandIsSeparateTerm per brand, no  *)
(* caches.                                                                 *)
(***************************************************************************)
checkBrandIsSeparateTerm(rawInput, brand) ==
    LET escapedBrand == EscapedBrand(brand)
        input == Normalize(rawInput)
        atBeginningOrEndOrMiddle == AtBeginningOrEndOrMiddle(input, escapedBrand)
        atBeginning == AtBeginning(input, escapedBrand)
        atSecondPosition == AtSecondPosition(input, escapedBrand)
        separateTerm == SeparateTerm(input, escapedBrand)
    IN  IF brand \in firstWordBrandValidationList /\ ~atBeginning THEN FALSE
        ELSE IF /\ brand \in firstOrSecondWordBrandValidationList
                /\ ~atBeginning
                /\ ~atSecondPosition
             THEN FALSE
        ELSE atBeginningOrEndOrMiddle \/ separateTerm

\* for (const brand of relatedBrands)
RECURSIVE MatchRelated000(_, _, _)
MatchRelated000(matchedBrands, relatedBrands, title) ==
    IF relatedBrands = <<>> THEN matchedBrands
    ELSE LET brand == Head(relatedBrands)
         IN  MatchRelated000(
                IF Includes(matchedBrands, brand) \/ brand \in ignoreBrandsList
                THEN matchedBrands
                ELSE IF checkBrandIsSeparateTerm(title, brand)
                     THEN Append(matchedBrands, brand)
                     ELSE matchedBrands,
                Tail(relatedBrands), title)

\* for (const brandKey in brandsMapping)
RECURSIVE MatchLoop000(_, _, _)
MatchLoop000(matchedBrands, mapping, title) ==
    IF mapping = <<>> THEN matchedBrands
    ELSE MatchLoop000(MatchRelated000(matchedBrands, Head(mapping).related, title),
                      Tail(mapping), title)

\* allConnected: the neighbours of every matched brand
RECURSIVE AllConnected000(_, _, _)
AllConnected000(acc, matchedBrands, mapping) ==
    IF matchedBrands = <<>> THEN acc
    ELSE LET related == ObjectGet(mapping, toLowerCase(Head(matchedBrands)))
         IN  AllConnected000(
                SetAddAll(acc, [k \in 1..Len(related) |-> toLowerCase(related[k])]),
                Tail(matchedBrands), mapping)

\* new Set([...matchedBrands.map(lower), ...allConnected])
AllPossible000(matchedBrands, mapping) ==
    SetAddAll(SetAddAll(<<>>, [k \in 1..Len(matchedBrands) |->
                                    toLowerCase(matchedBrands[k])]),
              AllConnected000(<<>>, matchedBrands, mapping))

\* Array.from(allPossible).reduce((best, b) => ..., null)
RECURSIVE ReduceBest000(_, _, _)
ReduceBest000(best, candidates, lowerTitle) ==
    IF candidates = <<>> THEN best
    ELSE LET b == Head(candidates)
             idx == indexOf(lowerTitle, b)
             next == IF idx = -1 THEN best
                     ELSE IF best = Null THEN b
                     ELSE IF indexOf(lowerTitle, best) < idx THEN best ELSE b
         IN  ReduceBest000(next, Tail(candidates), lowerTitle)

PriorityBrand000(matchedBrands, mapping, lowerTitle) ==
    LET best == ReduceBest000(Null, AllPossible000(matchedBrands, mapping),
                              lowerTitle)
    IN  IF Falsy(best) THEN toLowerCase(matchedBrands[1]) ELSE best

\* the record of one product; pushed only when a brand matched
ProductResult000(title, mapping, lookup) ==
    LET matchedBrands == MatchLoop000(<<>>, mapping, title)
        priorityBrand == IF Len(matchedBrands) > 0
                         THEN PriorityBrand000(matchedBrands, mapping,
                                               toLowerCase(title))
                         ELSE Null
        mainBrand == IF Len(matchedBrands) > 0
                     THEN MainBrand(lookup, toLowerCase(priorityBrand))
                     ELSE Null
    IN  [product |-> title, matchedBrands |-> matchedBrands,
         assignedBrand |-> mainBrand, priorityBrand |-> priorityBrand]

(***************************************************************************)
(* The unoptimized variant (brands.ts, lines 555-684):                     *)
(* checkBrandIsSeparateTerm per brand of allBrands, no caches.  Its        *)
(* normalizeInputIfAccentInsensitive (lines 545-553) is Normalize, its     *)
(* getBrandsMapping and buildCanonicalLookup (lines 476-537) are those of  *)
(* the optimized variant, and its allPossible (lines 633-643) is built as  *)
(* in part_000.                                                            *)
(***************************************************************************)
checkBrandIsSeparateTermUnoptimized(rawInput, brand) ==
    LET escapedBrand == EscapedBrand(brand)
        input == Normalize(rawInput)
        atBeginningOrEndOrMiddle == AtBeginningOrEndOrMiddle(input, escapedBrand)
        atBeginning == AtBeginning(input, escapedBrand)
        atSecondPosition == AtSecondPosition(input, escapedBrand)
        separateTerm == SeparateTerm(input, escapedBrand)
    IN  IF brand \in firstWordBrandValidationList THEN atBeginning
        ELSE IF brand \in firstOrSecondWordBrandValidationList
             THEN atBeginning \/ atSecondPosition
        ELSE atBeginningOrEndOrMiddle \/ separateTerm

\* for (const brand of allBrands)
RECURSIVE MatchLoopUnoptimized(_, _, _)
MatchLoopUnoptimized(matchedBrands, allBrands, title) ==
    IF allBrands = <<>> THEN matchedBrands
    ELSE LET brand == Head(allBrands)
         IN  MatchLoopUnoptimized(
                IF Includes(matchedBrands, brand) \/ brand \in ignoreBrandsList
                THEN matchedBrands
                ELSE IF checkBrandIsSeparateTermUnoptimized(title, brand)
                     THEN Append(matchedBrands, brand)
                     ELSE matchedBrands,
                Tail(allBrands), title)

\* the loop of lines 648-654 and the fallback of lines 656-658
PriorityBrandUnoptimized(matchedBrands, mapping, lowerTitle) ==
    LET earliest == EarliestLoop(Null, -1,
                        AllPossible000(matchedBrands, mapping), lowerTitle)
    IN  IF Falsy(earliest) THEN toLowerCase(matchedBrands[1]) ELSE earliest

\* the record pushed for one product
ProductResultUnoptimized(title, mapping, lookup) ==
    LET matchedBrands ==
            MatchLoopUnoptimized(<<>>, AllBrands(<<>>, mapping), title)
        priorityBrand == IF Len(matchedBrands) > 0
                         THEN PriorityBrandUnoptimized(matchedBrands, mapping,
                                                       toLowerCase(title))
                         ELSE Null
        mainBrand == IF Len(matchedBrands) > 0
                     THEN MainBrand(lookup, toLowerCase(priorityBrand))
                     ELSE Null
    IN  [product |-> title, matchedBrands |-> matchedBrands,
         assignedBrand |-> mainBrand, priorityBrand |-> priorityBrand]

(***************************************************************************)
(* Inputs: the rows of brandConnections.json and the titles of             *)
(* pharmacyItems.json the model draws from.                                *)
(***************************************************************************)
Row(p1, p2) == [manufacturer_p1 |-> p1, manufacturers_p2 |-> p2]

RowHeel ==
    Row(<<"H", "e", "e", "l">>,
        <<"C", "o", "n", "t", "o", "u", "r", ";", " ", "G", "U", "M">>)

RowRff == Row(<<"r", "f", "f">>, <<"g", "u", "m", ";", "h", "l">>)

RowBiofarm == Row(<<"B", "i", "o", "f", "a", "r", "m">>, <<"B", "I", "O">>)

Row112 == Row(<<"1", "1", "2">>, <<"H", "e", "e", "l">>)

RowHappy == Row(<<"h", "a", "p", "p", "y">>, <<"H", "l">>)

RowNeb == Row(<<"N", "e", "b">>, <<"b", "i", "o">>)

RowCPlus == Row(<<"c", "+">>, <<"h", "l", " ">>)

\* a row whose manufacturers_p2 is the empty string
RowNoSecondary == Row(<<"h", "l">>, <<>>)

\* a row with white space around both fields
RowPadded == Row(<<" ", "G", "u", "m">>, <<" ", "h", "l">>)

RowPool ==
    {RowHeel, RowRff, RowBiofarm, Row112, RowHappy, RowNeb, RowCPlus,
     RowNoSecondary, RowPadded}

\* the connection files the matching runs are checked on
Datasets ==
    { <<RowHeel, RowBiofarm, RowHappy>>, <<Row112, RowRff, RowCPlus>> }

TitlePool ==
    { <<"H", "A", "P", "P", "Y", " ", "x">>,
      <<"h", "a", "p", "p", "y", " ", "x">>,
      <<"H", "a", "p", "p", "y", " ", "x">>,
      <<"x", " ", "g", "u", "m">>,
      <<"g", "u", "m", "-", "x">>,
      <<"H", "e", "e", "l", " ", "C", "o", "n", "t", "o", "u", "r">>,
      <<"x", " ", "h", "e", "e", "l">>,
      <<"x", " ", "y", " ", "h", "e", "e", "l">>,
      <<"B", "i", "o", "f", "a", "r", "m", " ", "x">>,
      <<"v", "i", "t", " ", "c">>,
      <<"c", "+", "x">>,
      <<"H", "e_acute", "e", "l", " ", "x">> }

SeqsUpTo(S, n) == UNION {[1..k -> S] : k \in 0..n}

Product(title) == [title |-> title]

(***************************************************************************)
(* The batch run.  impl names the variant of assignBrandIfKnown that runs: *)
(* "optimized" is brands.ts, lines 174-304, "part_000" is the variant of   *)
(* src/unnamed/part_000.  The graph builder is run on every sequence of up *)
(* to MaxRows rows of RowPool, the matcher on the connection files of      *)
(* Datasets with every sequence of up to MaxProducts titles of TitlePool.  *)
(***************************************************************************)
Init ==
    /\ impl \in {"optimized", "part_000"}
    /\ \/ /\ connections \in SeqsUpTo(RowPool, MaxRows)
          /\ products = <<>>
       \/ /\ connections \in Datasets
          /\ products \in SeqsUpTo({Product(t) : t \in TitlePool}, MaxProducts)
    /\ pc = "getBrandsMapping"
    /\ ci = 0
    /\ brandMap = <<>>
    /\ brandsMapping = <<>>
    /\ canonicalLookup = EmptyObject
    /\ brandMatchCache = <<>>
    /\ brandNetworkCache = <<>>
    /\ normalizationCache = EmptyObject
    /\ i = 0
    /\ results = <<>>

\* one iteration of brandConnections.forEach
ReadConnection ==
    /\ pc = "getBrandsMapping"
    /\ ci < Len(connections)
    /\ brandMap' = AddConnection(brandMap, connections[ci + 1])
    /\ ci' = ci + 1
    /\ UNCHANGED <<impl, connections, products, pc, brandsMapping,
                   canonicalLookup, brandMatchCache, brandNetworkCache,
                   normalizationCache, i, results>>

\* the copy of the map into the object getBrandsMapping returns
ReturnMapping ==
    /\ pc = "getBrandsMapping"
    /\ ci = Len(connections)
    /\ brandsMapping' = ToObject(brandMap)
    /\ pc' = "build"
    /\ UNCHANGED <<impl, connections, products, ci, brandMap, canonicalLookup,
                   brandMatchCache, brandNetworkCache, normalizationCache, i,
                   results>>

\* brands.ts, lines 183-209: the lookup, the sorted cache, the networks
BuildCaches ==
    /\ pc = "build"
    /\ impl = "optimized"
    /\ IF buildCanonicalLookupThrows(brandsMapping)
       THEN /\ pc' = "failed"
            /\ UNCHANGED <<canonicalLookup, brandMatchCache, brandNetworkCache>>
       ELSE /\ canonicalLookup' = buildCanonicalLookup(brandsMapping)
            /\ LET allBrands == AllBrands(<<>>, brandsMapping)
               IN  /\ brandMatchCache' =
                        SortByLengthDesc(buildBrandMatchCache(allBrands))
                   /\ brandNetworkCache' =
                        buildBrandNetworkCache(brandsMapping, allBrands)
            /\ pc' = "products"
    /\ UNCHANGED <<impl, connections, products, ci, brandMap, brandsMapping,
                   normalizationCache, i, results>>

\* part_000, line 139
BuildLookup000 ==
    /\ pc = "build"
    /\ impl = "part_000"
    /\ IF buildCanonicalLookupThrows(brandsMapping)
       THEN pc' = "failed" /\ UNCHANGED canonicalLookup
       ELSE /\ canonicalLookup' = buildCanonicalLookup(brandsMapping)
            /\ pc' = "products"
    /\ UNCHANGED <<impl, connections, products, ci, brandMap, brandsMapping,
                   brandMatchCache, brandNetworkCache, normalizationCache, i,
                   results>>

\* brands.ts, one iteration of the loop of lines 216-290
ProcessProduct ==
    /\ pc = "products"
    /\ impl = "optimized"
    /\ i < Len(products)
    /\ results' = Append(results,
            ProductResult(products[i + 1].title, brandMatchCache,
                          brandNetworkCache, canonicalLookup, normalizationCache))
    /\ normalizationCache' = CacheAfter(normalizationCache, products[i + 1].title)
    /\ i' = i + 1
    /\ UNCHANGED <<impl, connections, products, pc, ci, brandMap, brandsMapping,
                   canonicalLookup, brandMatchCache, brandNetworkCache>>

\* part_000, one iteration of the loop of lines 145-213
ProcessProduct000 ==
    /\ pc = "products"
    /\ impl = "part_000"
    /\ i < Len(products)
    /\ LET result == ProductResult000(products[i + 1].title, brandsMapping,
                                      canonicalLookup)
       IN  results' = IF Len(result.matchedBrands) > 0
                      THEN Append(results, result) ELSE results
    /\ i' = i + 1
    /\ UNCHANGED <<impl, connections, products, pc, ci, brandMap, brandsMapping,
                   canonicalLookup, brandMatchCache, brandNetworkCache,
                   normalizationCache>>

\* brands.ts, lines 292-303: the results are written, the cache is cleared
WriteResults ==
    /\ pc = "products"
    /\ impl = "optimized"
    /\ i = Len(products)
    /\ normalizationCache' = EmptyObject
    /\ pc' = "done"
    /\ UNCHANGED <<impl, connections, products, ci, brandMap, brandsMapping,
                   canonicalLookup, brandMatchCache, brandNetworkCache, i,
                   results>>

\* part_000, lines 215-217
WriteResults000 ==
    /\ pc = "products"
    /\ impl = "part_000"
    /\ i = Len(products)
    /\ pc' = "done"
    /\ UNCHANGED <<impl, connections, products, ci, brandMap, brandsMapping,
                   canonicalLookup, brandMatchCache, brandNetworkCache,
                   normalizationCache, i, results>>

Next ==
    \/ ReadConnection
    \/ ReturnMapping
    \/ BuildCaches
    \/ BuildLookup000
    \/ ProcessProduct
    \/ ProcessProduct000
    \/ WriteResults
    \/ WriteResults000

Spec == Init /\ [][Next]_vars

(***************************************************************************)
(* The batch run of the optimized and of the unoptimized variant of        *)
(* brands.ts on the same connection file and products.                     *)
(***************************************************************************)
VariantDatasets == { <<RowBiofarm, RowCPlus>> }

VariantTitles ==
    { <<"B", "i", "o", "f", "a", "r", "m", " ", "x">>,
      <<"x", " ", "c", "+">>,
      <<"c", "+">>,
      <<"c", "+", "x">>,
      <<"x", " ", "H", "L", " ", "y">>,
      <<"x", "h", "l">> }

InitVariants ==
    /\ impl \in {"optimized", "unoptimized"}
    /\ connections \in VariantDatasets
    /\ products \in SeqsUpTo({Product(t) : t \in VariantTitles}, MaxProducts)
    /\ pc = "getBrandsMapping"
    /\ ci = 0
    /\ brandMap = <<>>
    /\ brandsMapping = <<>>
    /\ canonicalLookup = EmptyObject
    /\ brandMatchCache = <<>>
    /\ brandNetworkCache = <<>>
    /\ normalizationCache = EmptyObject
    /\ i = 0
    /\ results = <<>>

\* brands.ts, line 597
BuildLookupUnoptimized ==
    /\ pc = "build"
    /\ impl = "unoptimized"
    /\ IF buildCanonicalLookupThrows(brandsMapping)
       THEN pc' = "failed" /\ UNCHANGED canonicalLookup
       ELSE /\ canonicalLookup' = buildCanonicalLookup(brandsMapping)
            /\ pc' = "products"
    /\ UNCHANGED <<impl, connections, products, ci, brandMap, brandsMapping,
                   brandMatchCache, brandNetworkCache, normalizationCache, i,
                   results>>

\* brands.ts, one iteration of the loop of lines 610-679
ProcessProductUnoptimized ==
    /\ pc = "products"
    /\ impl = "unoptimized"
    /\ i < Len(products)
    /\ results' = Append(results,
            ProductResultUnoptimized(products[i + 1].title, brandsMapping,
                                     canonicalLookup))
    /\ i' = i + 1
    /\ UNCHANGED <<impl, connections, products, pc, ci, brandMap, brandsMapping,
                   canonicalLookup, brandMatchCache, brandNetworkCache,
                   normalizationCache>>

\* brands.ts, lines 681-683
WriteResultsUnoptimized ==
    /\ pc = "products"
    /\ impl = "unoptimized"
    /\ i = Len(products)
    /\ pc' = "done"
    /\ UNCHANGED <<impl, connections, products, ci, brandMap, brandsMapping,
                   canonicalLookup, brandMatchCache, brandNetworkCache,
                   normalizationCache, i, results>>

NextVariants ==
    \/ ReadConnection
    \/ ReturnMapping
    \/ BuildCaches
    \/ BuildLookupUnoptimized
    \/ ProcessProduct
    \/ ProcessProductUnoptimized
    \/ WriteResults
    \/ WriteResultsUnoptimized

SpecVariants == InitVariants /\ [][NextVariants]_vars

(***************************************************************************)
(* The batch run of the optimized variant with the compiled cache left in  *)
(* any order: the sort of line 198 replaced by an arbitrary permutation.   *)
(***************************************************************************)
RowHlB == Row(<<"H", "L", "-", "B">>, <<"h", "l">>)

OrderDatasets == { <<RowHlB, RowRff>> }

OrderTitles ==
    { <<"h", "l", "-", "b", " ", "x">>,
      <<"x", " ", "h", "l">>,
      <<"r", "f", "f", " ", "h", "l">>,
      <<"x">> }

PermutationsOf(seq) ==
    {[k \in 1..Len(seq) |-> seq[f[k]]] :
        f \in {g \in [1..Len(seq) -> 1..Len(seq)] :
                    \A j \in 1..Len(seq) : \A k \in 1..Len(seq) :
                        g[j] = g[k] => j = k}}

InitCacheOrder ==
    /\ impl = "optimized"
    /\ connections \in OrderDatasets
    /\ products \in SeqsUpTo({Product(t) : t \in OrderTitles}, MaxProducts)
    /\ pc = "getBrandsMapping"
    /\ ci = 0
    /\ brandMap = <<>>
    /\ brandsMapping = <<>>
    /\ canonicalLookup = EmptyObject
    /\ brandMatchCache = <<>>
    /\ brandNetworkCache = <<>>
    /\ normalizationCache = EmptyObject
    /\ i = 0
    /\ results = <<>>

\* brands.ts, lines 183-209, the cache in any order of its entries
BuildCachesAnyOrder ==
    /\ pc = "build"
    /\ IF buildCanonicalLookupThrows(brandsMapping)
       THEN /\ pc' = "failed"
            /\ UNCHANGED <<canonicalLookup, brandMatchCache, brandNetworkCache>>
       ELSE /\ canonicalLookup' = buildCanonicalLookup(brandsMapping)
            /\ LET allBrands == AllBrands(<<>>, brandsMapping)
               IN  /\ brandMatchCache' \in
                        PermutationsOf(buildBrandMatchCache(allBrands))
                   /\ brandNetworkCache' =
                        buildBrandNetworkCache(brandsMapping, allBrands)
            /\ pc' = "products"
    /\ UNCHANGED <<impl, connections, products, ci, brandMap, brandsMapping,
                   normalizationCache, i, results>>

NextCacheOrder ==
    \/ ReadConnection
    \/ ReturnMapping
    \/ BuildCachesAnyOrder
    \/ ProcessProduct
    \/ WriteResults

SpecCacheOrder == InitCacheOrder /\ [][NextCacheOrder]_vars

(***************************************************************************)
(* normalizeInputIfAccentInsensitive on its own: called on an input, and   *)
(* again on the input or on a string an earlier call returned, with the    *)
(* normalizationCache the earlier calls left.  A record of results is one  *)
(* call: its input and the string returned.                                *)
(***************************************************************************)
NormalizeAlphabet == {"x", "e_acute", "o_slash", "cgj", "etnahta", "segol"}

NormalizeInputs == SeqsUpTo(NormalizeAlphabet, MaxTitleLen)

InitNormalize ==
    /\ impl = "normalize"
    /\ connections = <<>>
    /\ products \in {<<Product(t)>> : t \in NormalizeInputs}
    /\ pc = "normalize"
    /\ ci = 0
    /\ brandMap = <<>>
    /\ brandsMapping = <<>>
    /\ canonicalLookup = EmptyObject
    /\ brandMatchCache = <<>>
    /\ brandNetworkCache = <<>>
    /\ normalizationCache = EmptyObject
    /\ i = 0
    /\ results = <<>>

\* one call of normalizeInputIfAccentInsensitive
NormalizeCall ==
    /\ pc = "normalize"
    /\ i < MaxCalls
    /\ \E input \in {products[1].title}
                        \cup {results[k].output : k \in 1..Len(results)} :
        /\ results' = Append(results,
                [input |-> input,
                 output |-> normalizeInputIfAccentInsensitive(normalizationCache,
                                                              input)])
        /\ normalizationCache' = CacheAfter(normalizationCache, input)
    /\ i' = i + 1
    /\ UNCHANGED <<impl, connections, products, pc, ci, brandMap, brandsMapping,
                   canonicalLookup, brandMatchCache, brandNetworkCache>>

NextNormalize == NormalizeCall

SpecNormalize == InitNormalize /\ [][NextNormalize]_vars

(***************************************************************************)
(* Vocabulary of the properties.                                           *)
(***************************************************************************)
Gum == <<"g", "u", "m">>
Heel == <<"h", "e", "e", "l">>
Happy == <<"h", "a", "p", "p", "y">>

Keys(graph) == {graph[k].brand : k \in 1..Len(graph)}

Neighbours(graph, a) == IF MapHas(graph, a) THEN Range(MapGet(graph, a)) ELSE {}

Aliases(graph) == Keys(graph) \cup UNION {Neighbours(graph, a) : a \in Keys(graph)}

Symmetric(graph) ==
    \A a \in Aliases(graph) : \A b \in Aliases(graph) :
        (b \in Neighbours(graph, a)) <=> (a \in Neighbours(graph, b))

\* the equivalence class of an alias: its connected component
RECURSIVE Reach(_, _)
Reach(graph, S) ==
    LET T == S \cup UNION {Neighbours(graph, a) : a \in S}
    IN  IF T = S THEN S ELSE Reach(graph, T)

Class(graph, a) == Reach(graph, {a})

\* buildCanonicalLookup has returned
LookupBuilt == pc \in {"products", "done"}

ResultsOf(variant) ==
    IF impl = variant THEN {results[k] : k \in 1..Len(results)} ELSE {}

AllResults == {results[k] : k \in 1..Len(results)}

(***************************************************************************)
(* buildCanonicalLookup on its own, called on the symmetric graphs of up   *)
(* to MaxKeys aliases: an alias may have no neighbour at all.              *)
(***************************************************************************)
GraphAliases == {<<"h", "l">>, <<"g", "u", "m">>, <<"b", "i", "o">>}

\* the arrays of distinct aliases
AliasLists ==
    {l \in SeqsUpTo(GraphAliases, MaxKeys) :
        \A j \in 1..Len(l) : \A k \in 1..Len(l) : l[j] = l[k] => j = k}

Graphs ==
    {g \in SeqsUpTo([brand : GraphAliases, related : AliasLists], MaxKeys) :
        /\ \A j \in 1..Len(g) : \A k \in 1..Len(g) :
                g[j].brand = g[k].brand => j = k
        /\ Symmetric(g)}

InitLookup ==
    /\ impl = "buildCanonicalLookup"
    /\ connections = <<>>
    /\ products = <<>>
    /\ pc = "lookup"
    /\ ci = 0
    /\ brandMap = <<>>
    /\ brandsMapping \in Graphs
    /\ canonicalLookup = EmptyObject
    /\ brandMatchCache = <<>>
    /\ brandNetworkCache = <<>>
    /\ normalizationCache = EmptyObject
    /\ i = 0
    /\ results = <<>>

\* one call of buildCanonicalLookup: it returns the lookup or throws
CallBuildCanonicalLookup ==
    /\ pc = "lookup"
    /\ IF buildCanonicalLookupThrows(brandsMapping)
       THEN pc' = "failed" /\ UNCHANGED canonicalLookup
       ELSE /\ canonicalLookup' = buildCanonicalLookup(brandsMapping)
            /\ pc' = "done"
    /\ UNCHANGED <<impl, connections, products, ci, brandMap, brandsMapping,
                   brandMatchCache, brandNetworkCache, normalizationCache, i,
                   results>>

NextLookup == CallBuildCanonicalLookup

SpecLookup == InitLookup /\ [][NextLookup]_vars

(***************************************************************************)
(* C1: the graph getBrandsMapping builds and returns is symmetric: b is a  *)
(* neighbour of a exactly when a is a neighbour of b, after every row.     *)
(***************************************************************************)
C1_GraphSymmetry == Symmetric(brandMap) /\ Symmetric(brandsMapping)

\* two rows were read and the returned graph has an alias with two neighbours
C1_Witness ==
    /\ pc = "build"
    /\ Len(connections) = 2
    /\ \E k \in 1..Len(brandsMapping) : Len(brandsMapping[k].related) >= 2

(***************************************************************************)
(* C2: in the canonical lookup, all non-ignored aliases of one equivalence *)
(* class (connected component) map to the same representative.             *)
(***************************************************************************)
C2_OneRepresentativePerClass ==
    LookupBuilt =>
        \A a \in Keys(brandsMapping) : \A b \in Class(brandsMapping, a) :
            (a \notin ignoreBrandsList /\ b \notin ignoreBrandsList)
                => canonicalLookup[a] = canonicalLookup[b]

(***************************************************************************)
(* C3: canonical(a) is a itself or a neighbour of a, and the lookup is     *)
(* idempotent: canonical(canonical(a)) = canonical(a).                     *)
(***************************************************************************)
C3_CanonicalStability ==
    LookupBuilt =>
        \A a \in Keys(brandsMapping) :
            /\ a \in DOMAIN canonicalLookup
            /\ canonicalLookup[a] \in {a} \cup Neighbours(brandsMapping, a)
            /\ canonicalLookup[canonicalLookup[a]] = canonicalLookup[a]

(***************************************************************************)
(* C4: an ignored alias is the value of a lookup entry only if the         *)
(* equivalence class of that entry has no non-ignored alias.               *)
(***************************************************************************)
C4_IgnoredNeverCanonical ==
    LookupBuilt =>
        \A a \in DOMAIN canonicalLookup :
            canonicalLookup[a] \in ignoreBrandsList
                => Class(brandsMapping, a) \subseteq ignoreBrandsList

(***************************************************************************)
(* C5: "happy" is in a result's matched list only if the title contains    *)
(* the upper-case token "HAPPY".                                           *)
(***************************************************************************)
C5_HappyOnlyUpperCase ==
    \A r \in AllResults :
        Includes(r.matchedBrands, Happy)
            => indexOf(r.product, <<"H", "A", "P", "P", "Y">>) # -1

(***************************************************************************)
(* C6: position policies.                                                  *)
(***************************************************************************)
\* the whitespace-delimited tokens of a string
RECURSIVE Tokens(_)
Tokens(t) ==
    IF t = <<>> THEN <<>>
    ELSE IF IsSpace(Head(t)) THEN Tokens(Tail(t))
    ELSE LET spaces == {k \in 1..Len(t) : IsSpace(t[k])}
         IN  IF spaces = {} THEN <<t>>
             ELSE LET k == CHOOSE m \in spaces : \A n \in spaces : m <= n
                  IN  <<SubSeq(t, 1, k - 1)>> \o Tokens(SubSeq(t, k, Len(t)))

TokenIs(t, n, alias) ==
    Len(Tokens(t)) >= n /\ toLowerCase(Tokens(t)[n]) = alias

\* C6 as stated: a first-word-only alias is matched only if it is the first
\* whitespace-delimited token of the normalized title, a first-or-second
\* alias only if it is the first or the second token.
C6_WhitespaceTokenPolicy ==
    \A r \in AllResults :
        \A k \in 1..Len(r.matchedBrands) :
            LET alias == r.matchedBrands[k]
                t == Normalize(r.product)
            IN  /\ alias \in firstWordBrandValidationList => TokenIs(t, 1, alias)
                /\ alias \in firstOrSecondWordBrandValidationList
                        => TokenIs(t, 1, alias) \/ TokenIs(t, 2, alias)

\* the alias stands in t right after the first off characters, in any case,
\* and the end of t or a character that is not a word character follows it
StandsAt(t, off, alias) ==
    /\ off + Len(alias) <= Len(t)
    /\ toLowerCase(SubSeq(t, off + 1, off + Len(alias))) = alias
    /\ (off + Len(alias) = Len(t) \/ ~IsWordChar(t[off + Len(alias) + 1]))

\* the offsets at which the second token of t starts, t starting with a token
SecondTokenOffsets(t) ==
    {off \in 1..Len(t) :
        /\ ~IsSpace(t[1])
        /\ IsSpace(t[off])
        /\ (off = Len(t) \/ ~IsSpace(t[off + 1]))
        /\ \A k \in 1..off : IsSpace(t[k]) => \A m \in k..off : IsSpace(t[m])}

\* C6, amended: a first-word-only alias is matched only if the normalized
\* title begins with it (in any case) and the end of the title or a non-word
\* character follows it; a first-or-second alias only if it stands so at the
\* beginning or at the start of the second whitespace-delimited token.  No
\* occurrence at a later position produces a match.
C6_PositionPolicy ==
    \A r \in AllResults :
        \A k \in 1..Len(r.matchedBrands) :
            LET alias == r.matchedBrands[k]
                t == Normalize(r.product)
            IN  /\ alias \in firstWordBrandValidationList => StandsAt(t, 0, alias)
                /\ alias \in firstOrSecondWordBrandValidationList
                        => \/ StandsAt(t, 0, alias)
                           \/ \E off \in SecondTokenOffsets(t) :
                                    StandsAt(t, off, alias)

\* "gum" was matched at the start of "gum-x" and "heel" as the second token
C6_Witness ==
    /\ \E r \in AllResults :
            /\ r.product = <<"g", "u", "m", "-", "x">>
            /\ Includes(r.matchedBrands, Gum)
    /\ \E r \in AllResults :
            /\ r.product = <<"x", " ", "h", "e", "e", "l">>
            /\ Includes(r.matchedBrands, Heel)

(***************************************************************************)
(* C7: in the optimized variant, a result has a null priority alias and a  *)
(* null assigned brand exactly when its matched list is empty, and a title *)
(* that contains none of the known aliases as a whole word has an empty    *)
(* matched list, a null priority alias and a null assigned brand.          *)
(***************************************************************************)
\* the alias occurs in t, in any case, with no word character next to it
WholeWordIn(t, alias) ==
    \E off \in 0..(Len(t) - Len(alias)) :
        /\ toLowerCase(SubSeq(t, off + 1, off + Len(alias))) = alias
        /\ (off = 0 \/ ~IsWordChar(t[off]))
        /\ (off + Len(alias) = Len(t) \/ ~IsWordChar(t[off + Len(alias) + 1]))

NoKnownAliasIn(title) ==
    \A alias \in Aliases(brandsMapping) :
        ~WholeWordIn(Normalize(title), alias)

NullResult(r) ==
    r.matchedBrands = <<>> /\ r.priorityBrand = Null /\ r.assignedBrand = Null

C7_NoMatchIsNull ==
    \A r \in ResultsOf("optimized") :
        /\ (r.priorityBrand = Null /\ r.assignedBrand = Null)
                <=> r.matchedBrands = <<>>
        /\ NoKnownAliasIn(r.product) => NullResult(r)

(***************************************************************************)
(* C8: after the batch run the output holds exactly one record per input   *)
(* product, in input order, unmatched products included.                   *)
(***************************************************************************)
C8_OneResultPerProduct ==
    pc = "done" =>
        /\ Len(results) = Len(products)
        /\ \A k \in 1..Len(results) : results[k].product = products[k].title

(***************************************************************************)
(* C9: when an alias matched, the priority alias is the candidate (matched *)
(* aliases and their direct neighbours) whose first occurrence in the      *)
(* lower-cased title is leftmost; of two candidates with the same leftmost *)
(* index, the one scanned first.                                           *)
(***************************************************************************)
\* the candidate set in the order the variant scans it
Candidates(r) ==
    IF impl = "optimized"
    THEN AllConnectedBrands(r.matchedBrands, brandNetworkCache)
    ELSE AllPossible000(r.matchedBrands, brandsMapping)

\* the lower-cased title the variant searches
SearchedTitle(r) ==
    IF impl = "optimized" THEN toLowerCase(Normalize(r.product))
    ELSE toLowerCase(r.product)

\* candidate k is leftmost, and the first scanned among the leftmost
LeftmostFirst(cands, t, k) ==
    /\ indexOf(t, cands[k]) # -1
    /\ \A j \in 1..Len(cands) :
            indexOf(t, cands[j]) # -1 =>
                \/ indexOf(t, cands[k]) < indexOf(t, cands[j])
                \/ indexOf(t, cands[k]) = indexOf(t, cands[j]) /\ k <= j

C9_PriorityIsLeftmostFirst ==
    \A r \in AllResults :
        LET cands == Candidates(r)
            t == SearchedTitle(r)
        IN  (r.matchedBrands # <<>> /\ \E j \in 1..Len(cands) : indexOf(t, cands[j]) # -1)
                => \E k \in 1..Len(cands) :
                        cands[k] = r.priorityBrand /\ LeftmostFirst(cands, t, k)

(***************************************************************************)
(* C10: in the optimized variant no ignored alias is in a matched list and *)
(* no ignored alias is a priority alias.                                   *)
(***************************************************************************)
C10_IgnoredNeverMatched ==
    \A r \in ResultsOf("optimized") :
        /\ \A k \in 1..Len(r.matchedBrands) :
                r.matchedBrands[k] \notin ignoreBrandsList
        /\ r.priorityBrand \notin ignoreBrandsList

(***************************************************************************)
(* C11: normalizeInputIfAccentInsensitive is idempotent: a call on a       *)
(* string an earlier call returned, computed or served from the cache,     *)
(* returns that string unchanged.                                          *)
(***************************************************************************)
C11_NormalizeIdempotent ==
    \A a \in AllResults : \A b \in AllResults :
        b.input = a.output => b.output = a.output

(***************************************************************************)
(* C12: a row whose related-aliases text is empty adds no edge and no      *)
(* secondary alias: no alias of the graph is the empty string, and every   *)
(* neighbour of the primary alias of such a row comes from another row.    *)
(***************************************************************************)
\* the secondary aliases of a row, as getBrandsMapping reads them
Secondaries(row) ==
    LET parts == split(toLowerCase(row.manufacturers_p2))
    IN  {trim(parts[k]) : k \in 1..Len(parts)}

\* the row links the aliases a and b
Links(row, a, b) ==
    LET primary == toLowerCase(row.manufacturer_p1)
    IN  \/ primary = a /\ b \in Secondaries(row)
        \/ primary = b /\ a \in Secondaries(row)

C12_EmptySecondaryAddsNothing ==
    /\ <<>> \notin Aliases(brandMap) \cup Aliases(brandsMapping)
    /\ \A k \in 1..ci :
            connections[k].manufacturers_p2 = <<>> =>
                LET primary == toLowerCase(connections[k].manufacturer_p1)
                IN  \A n \in Neighbours(brandMap, primary) :
                        \E j \in 1..ci :
                            /\ connections[j].manufacturers_p2 # <<>>
                            /\ Links(connections[j], primary, n)

(***************************************************************************)
(* C16: every alias of the graph, key or neighbour, from the primary field *)
(* or from the secondary list, is lower-cased and has no leading or        *)
(* trailing white space.                                                   *)
(***************************************************************************)
C16_AliasesLowerCasedAndTrimmed ==
    \A a \in Aliases(brandMap) \cup Aliases(brandsMapping) :
        a = toLowerCase(a) /\ a = trim(a)

(***************************************************************************)
(* C17: buildCanonicalLookup never fails and is total: once called, it has *)
(* returned a lookup in which every alias of the graph has an entry, and   *)
(* an alias without neighbours maps to itself.                             *)
(***************************************************************************)
C17_LookupTotal ==
    pc # "lookup" =>
        /\ pc # "failed"
        /\ \A a \in Aliases(brandsMapping) :
                /\ a \in DOMAIN canonicalLookup
                /\ Neighbours(brandsMapping, a) = {} => canonicalLookup[a] = a

(***************************************************************************)
(* C13: on every graph and title the optimized variant and the unoptimized *)
(* variant produce the same set of matched aliases, the same priority      *)
(* alias and the same assigned brand.                                      *)
(***************************************************************************)
\* what the other variant produces for the title of r on the same graph
OtherVariantResult(r) ==
    IF impl = "optimized"
    THEN ProductResultUnoptimized(r.product, brandsMapping, canonicalLookup)
    ELSE LET allBrands == AllBrands(<<>>, brandsMapping)
         IN  ProductResult(r.product,
                SortByLengthDesc(buildBrandMatchCache(allBrands)),
                buildBrandNetworkCache(brandsMapping, allBrands),
                canonicalLookup, EmptyObject)

SameOutcome(a, b) ==
    /\ Range(a.matchedBrands) = Range(b.matchedBrands)
    /\ a.priorityBrand = b.priorityBrand
    /\ a.assignedBrand = b.assignedBrand

C13_OptimizedEquivalent ==
    \A r \in AllResults : SameOutcome(r, OtherVariantResult(r))

(***************************************************************************)
(* C14: an alias with the default anywhere policy is matched whenever it   *)
(* occurs in the normalized title with a space or the start of the title   *)
(* before it and a space or the end of the title after it, also when the   *)
(* alias begins or ends with a non-word character; and it is not matched   *)
(* when it occurs only as part of a longer word.                           *)
(***************************************************************************)
AnywhereAliases ==
    Aliases(brandsMapping) \ (firstWordBrandValidationList
                                \cup firstOrSecondWordBrandValidationList
                                \cup ignoreBrandsList)

\* the offsets at which the alias occurs in t, in any case
Occurrences(t, alias) ==
    {off \in 0..(Len(t) - Len(alias)) :
        toLowerCase(SubSeq(t, off + 1, off + Len(alias))) = alias}

SpaceBounded(t, alias) ==
    \E off \in Occurrences(t, alias) :
        /\ (off = 0 \/ IsSpace(t[off]))
        /\ (off + Len(alias) = Len(t) \/ IsSpace(t[off + Len(alias) + 1]))

\* every occurrence has a word character right before or right after it
OnlyInsideLongerWord(t, alias) ==
    /\ Occurrences(t, alias) # {}
    /\ \A off \in Occurrences(t, alias) :
            \/ off > 0 /\ IsWordChar(t[off])
            \/ off + Len(alias) < Len(t) /\ IsWordChar(t[off + Len(alias) + 1])

C14_AnywherePolicy ==
    \A r \in AllResults : \A alias \in AnywhereAliases :
        LET t == Normalize(r.product)
        IN  /\ SpaceBounded(t, alias) => Includes(r.matchedBrands, alias)
            /\ Includes(r.matchedBrands, alias) => ~OnlyInsideLongerWord(t, alias)

(***************************************************************************)
(* C15: the order of the compiled cache changes only the order of the      *)
(* matched list.                                                           *)
(***************************************************************************)
\* what the length-descending cache of line 198 gives for the title of r
SortedCacheResult(r) ==
    ProductResult(r.product,
        SortByLengthDesc(buildBrandMatchCache(AllBrands(<<>>, brandsMapping))),
        brandNetworkCache, canonicalLookup, EmptyObject)

C18_ResultDependsOnTitleOnly ==
    (impl = "optimized" /\ pc \in {"products", "done"}) =>
        LET allBrands == AllBrands(<<>>, brandsMapping)
        IN  /\ brandsMapping = ToObject(brandMap)
            /\ canonicalLookup = buildCanonicalLookup(brandsMapping)
            /\ brandMatchCache =
                    SortByLengthDesc(buildBrandMatchCache(allBrands))
            /\ brandNetworkCache =
                    buildBrandNetworkCache(brandsMapping, allBrands)
            /\ \A k \in 1..Len(results) :
                    results[k] = ProductResult(products[k].title,
                                    brandMatchCache, brandNetworkCache,
                                    canonicalLookup, EmptyObject)
            /\ \A j \in 1..Len(results) : \A k \in 1..Len(results) :
                    products[j].title = products[k].title
                        => results[j] = results[k]

\* the same accented title was processed twice, the second time with its
\* normalization served from the cache, and an alias was matched in it
C18_Witness ==
    /\ impl = "optimized"
    /\ Len(results) = 2
    /\ products[1].title = products[2].title
    /\ products[1].title \in DOMAIN normalizationCache
    /\ normalizationCache[products[1].title] # products[1].title
    /\ results[2].matchedBrands # <<>>

====
